---- MODULE Spec2Model ----
(***************************************************************************)
(* Model of src/main.rs of rust-media: the playback loop of main, the      *)
(* video pacer Decoder::should_display_frame, the audio ring buffer        *)
(* AudioPlayer::add_samples / AudioPlayer::callback and the audio clock    *)
(* AudioState.current_time.                                                *)
(*                                                                         *)
(* Instants and Durations are integers (clock ticks).  An Option is a      *)
(* sequence of length 0 (None) or 1 (Some).  An f32 sample is a small      *)
(* integer, silence 0.0 is 0.  current_time is kept in units of            *)
(* one time-base denominator, so that pts as f64 * time_base is pts times *)
(* the numerator of time_base.                                             *)
(***************************************************************************)
EXTENDS Integers, Sequences, FiniteSets

\* ------------------------------------------------------------------ bounds
\* capacity unit of the ring buffer (16384 in the program, scaled down)
AUDIO_BUFFER_SIZE == 2
\* largest number of samples in one decoded audio frame
MaxSamples == 3
\* largest number of slots the audio device asks for in one callback
MaxOut == 2
\* largest number of packets the demultiplexer delivers
MaxPackets == 4
\* the clock is observed up to this tick by the free-running Tick
MaxTime == 5
\* Decoder.frame_duration, fixed at construction from the stream's rate
frame_duration == 2
\* AudioPlayer.time_base (numerator), fixed at construction from the stream
AudioPlayer_time_base == 2
\* Decoder.time_base (numerator), fixed at construction from the stream
Decoder_time_base == 1

\* channel counts of the audio decoder (u8)
ChannelCounts == {1, 2}
\* sample values of a decoded audio frame (non-silent, two distinct values)
SampleVals == {1, 2}
\* presentation timestamps a packet may carry (i64), besides none
PtsVals == {-1, 1}
\* what a slot of the device's slice holds before callback writes it
Uninit == -1

\* ------------------------------------------------------------------ helpers
None == <<>>
Some(x) == <<x>>
IsNone(o) == o = <<>>
Unwrap(o) == o[1]
\* Option::unwrap_or
UnwrapOr(o, dflt) == IF o = <<>> THEN dflt ELSE o[1]

Min(a, b) == IF a < b THEN a ELSE b

Streams == {"video", "audio", "other"}
Packets == [stream : Streams, pts : {None} \cup {Some(p) : p \in PtsVals}]
NoPacket == [stream |-> "none", pts |-> None]
AudioPackets == {p \in Packets : p.stream # "video"}

\* what send_packet / receive_frame return: Ok, Err(EAGAIN) "no output
\* available yet", or any other Err
DecoderResults == {"Ok", "EAGAIN", "Err"}

VARIABLES
    pc,                 \* position of the playback loop in main
    result,             \* "running", or how main ended: "ok", "error", "panic"
    quit,               \* a Quit / Escape event is pending in the event pump
    pulled,             \* packets pulled from the demultiplexer so far
    packet,             \* the packet of this iteration
    dec_ret,            \* what the last decoder call returned
    audio_decoder,      \* TRUE iff audio_decoder / audio_device are Some
    channels,           \* AudioPlayer.channels
    now,                \* the monotonic clock, Instant::now()
    start_time,         \* Decoder.start_time
    last_frame_time,    \* Decoder.last_frame_time
    next_frame_target,  \* Decoder.next_frame_target
    frame_count,        \* Decoder.frame_count
    ret,                \* what the last should_display_frame call returned
    slept,              \* how long the last should_display_frame call slept
    buffer,             \* AudioPlayer.buffer
    current_time,       \* AudioState.current_time
    samples,            \* audio_frame.plane::<f32>(0) of the received frame
    samples_to_add,     \* the local samples_to_add of add_samples
    device_lock,        \* holder of the audio device lock: "free", "main", "audio"
    state_lock,         \* holder of the AudioState mutex: "free", "main"
    cb_pc,              \* position of the audio device thread
    out                 \* the output slice handed to callback

loopVars == <<pc, result, quit, pulled, packet, dec_ret>>
pacerVars == <<start_time, last_frame_time, next_frame_target, frame_count, ret, slept>>
audioVars == <<buffer, current_time, samples, samples_to_add, state_lock>>
cbVars == <<cb_pc, out>>
vars == <<loopVars, pacerVars, audioVars, cbVars, audio_decoder, channels, now,
          device_lock>>

\* ------------------------------------------------------------ pure functions
\* AUDIO_BUFFER_SIZE * self.channels as usize
Capacity(ch) == AUDIO_BUFFER_SIZE * ch

\* let buffer_space = AUDIO_BUFFER_SIZE * self.channels as usize - self.buffer.len();
BufferSpace(buf, ch) == Capacity(ch) - Len(buf)

\* let samples_to_add = samples.len().min(buffer_space);
SamplesToAdd(buf, smp, ch) == Min(Len(smp), BufferSpace(buf, ch))

\* for &sample in samples.iter().take(samples_to_add) {
\*     if self.buffer.len() < capacity { self.buffer.push_back(sample); } }
RECURSIVE PushSamples(_, _, _, _, _)
PushSamples(buf, smp, i, n, ch) ==
    IF i > n THEN buf
    ELSE IF Len(buf) < Capacity(ch)
         THEN PushSamples(Append(buf, smp[i]), smp, i + 1, n, ch)
         ELSE PushSamples(buf, smp, i + 1, n, ch)

\* add_samples without any overflow control: every sample is pushed
AddSamplesBuffer_PushAll(buf, smp, ch) == buf \o smp

\* add_samples keeping the newest samples of the input instead of the first
AddSamplesBuffer_KeepNewest(buf, smp, ch) ==
    LET k == SamplesToAdd(buf, smp, ch)
    IN  buf \o SubSeq(smp, Len(smp) - k + 1, Len(smp))

\* the buffer add_samples leaves
AddSamplesBuffer(buf, smp, ch) ==
    PushSamples(buf, smp, 1, SamplesToAdd(buf, smp, ch), ch)

\* let current_time = pts as f64 * self.time_base;
AudioTime(pts) == pts * AudioPlayer_time_base

\* callback taking the newest sample (pop_back) instead of the oldest
RECURSIVE CallbackFill_PopBack(_, _, _)
CallbackFill_PopBack(buf, o, i) ==
    IF i > Len(o) THEN [buffer |-> buf, out |-> o]
    ELSE IF buf = <<>>
         THEN CallbackFill_PopBack(buf, [o EXCEPT ![i] = 0], i + 1)
         ELSE CallbackFill_PopBack(SubSeq(buf, 1, Len(buf) - 1),
                                   [o EXCEPT ![i] = buf[Len(buf)]], i + 1)

\* callback that leaves the slots it has no sample for unwritten
CallbackFill_NoSilence(buf, o, i) ==
    LET k == Min(Len(o), Len(buf))
    IN  [buffer |-> SubSeq(buf, k + 1, Len(buf)),
         out |-> [j \in 1..Len(o) |-> IF j <= k THEN buf[j] ELSE o[j]]]

\* for sample in out.iter_mut() {
\*     if self.buffer.is_empty() { *sample = 0.0 } else { *sample = pop_front() } }
RECURSIVE CallbackFill(_, _, _)
CallbackFill(buf, o, i) ==
    IF i > Len(o) THEN [buffer |-> buf, out |-> o]
    ELSE IF buf = <<>>
         THEN CallbackFill(buf, [o EXCEPT ![i] = 0], i + 1)
         ELSE CallbackFill(Tail(buf), [o EXCEPT ![i] = Head(buf)], i + 1)

\* if self.start_time.is_none()
IsFirstCall(st) == st = None

\* std::thread::sleep(target_time.duration_since(now)): the clock when the
\* sleep ends (a longer sleep is this one followed by Ticks)
SleepUntil(t, target_time) == t + (target_time - t)

\* a first call that sets the target to now, without the frame period
FirstTarget_NoPeriod(t) == t

\* self.next_frame_target = Some(now + self.frame_duration);   (first call)
FirstTarget(t) == t + frame_duration

\* the target recomputed from the clock reading instead of accumulated
NextTarget_FromNow(target_time, t) == t + frame_duration

\* variant of NextTarget for the check of C12: the target runs two periods ahead
NextTarget_TwoPeriods(target_time, t) == target_time + 2 * frame_duration

\* self.next_frame_target = Some(target_time + self.frame_duration);
NextTarget(target_time, t) == target_time + frame_duration

\* Duration::from_secs_f64(pts as f64 * self.time_base) panics on a negative value
VideoTimePanics(pts) == pts * Decoder_time_base < 0

\* ------------------------------------------------------------------- Init
Init ==
    /\ pc = "poll"
    /\ result = "running"
    /\ quit = FALSE
    /\ pulled = 0
    /\ packet = NoPacket
    /\ dec_ret = "none"
    /\ audio_decoder \in BOOLEAN
    /\ channels \in IF audio_decoder THEN ChannelCounts ELSE {0}
    /\ now = 0
    /\ start_time = None
    /\ last_frame_time = None
    /\ next_frame_target = None
    /\ frame_count = 0
    /\ ret = None
    /\ slept = 0
    /\ buffer = <<>>
    /\ current_time = 0
    /\ samples = <<>>
    /\ samples_to_add = 0
    /\ device_lock = "free"
    /\ state_lock = "free"
    /\ cb_pc = "idle"
    /\ out = <<>>

\* ---------------------------------------------------------- playback loop
\* the loop body's locals go out of scope when the iteration ends
EndIteration ==
    /\ pc' = "poll"
    /\ packet' = NoPacket
    /\ UNCHANGED result

\* an Err propagated by ?, a panic, or a break out of 'running
Terminate(how) ==
    /\ pc' = "done"
    /\ result' = how
    /\ packet' = NoPacket

\* variant of Poll for the check of C11: the pending quit event is ignored
Poll_IgnoresQuit ==
    /\ pc = "poll"
    /\ pc' = "next"
    /\ dec_ret' = "none"
    /\ UNCHANGED <<result, packet, quit, pulled>>
    /\ UNCHANGED <<pacerVars, audioVars, cbVars, audio_decoder, channels, now, device_lock>>

\* for event in event_pump.poll_iter() { Quit | Escape => break 'running }
Poll ==
    /\ pc = "poll"
    /\ IF quit THEN Terminate("ok")
               ELSE pc' = "next" /\ UNCHANGED <<result, packet>>
    /\ dec_ret' = "none"
    /\ UNCHANGED <<quit, pulled>>
    /\ UNCHANGED <<pacerVars, audioVars, cbVars, audio_decoder, channels, now, device_lock>>

\* the user closes the window or presses Escape
UserQuit ==
    /\ pc # "done"
    /\ ~quit
    /\ quit' = TRUE
    /\ UNCHANGED <<pc, result, pulled, packet, dec_ret>>
    /\ UNCHANGED <<pacerVars, audioVars, cbVars, audio_decoder, channels, now, device_lock>>

\* match ictx.packets().next() { Some((stream, packet)) => dispatch by stream
\* index, None => break }, for a demultiplexer whose packets are in S
NextPacketFrom(S) ==
    /\ pc = "next"
    /\ \/ Terminate("ok") /\ UNCHANGED pulled
       \/ /\ pulled < MaxPackets
          /\ pulled' = pulled + 1
          /\ \E p \in S :
               IF p.stream = "video"
               THEN pc' = "v_send" /\ packet' = p /\ UNCHANGED result
               ELSE IF p.stream = "audio" /\ audio_decoder
               THEN pc' = "a_send" /\ packet' = p /\ UNCHANGED result
               ELSE EndIteration
    /\ UNCHANGED <<quit, dec_ret>>
    /\ UNCHANGED <<pacerVars, audioVars, cbVars, audio_decoder, channels, now, device_lock>>

NextPacket == NextPacketFrom(Packets)

\* decoder.decoder.send_packet(&packet)?;
VideoSendPacket ==
    /\ pc = "v_send"
    /\ \E r \in DecoderResults :
         /\ dec_ret' = r
         /\ IF r = "Ok" THEN pc' = "v_recv" /\ UNCHANGED <<result, packet>>
                        ELSE Terminate("error")
    /\ UNCHANGED <<quit, pulled>>
    /\ UNCHANGED <<pacerVars, audioVars, cbVars, audio_decoder, channels, now, device_lock>>

\* if decoder.receive_frame_yuv(&mut frame)? { ... }: receive_frame, then
\* self.scaler.run(frame, &mut yuv_frame)? on a received frame
VideoReceiveFrame ==
    /\ pc = "v_recv"
    /\ \E r \in DecoderResults, scaled \in BOOLEAN :
         /\ r # "Ok" => scaled
         /\ dec_ret' = r
         /\ IF r = "Ok"
            THEN IF scaled THEN pc' = "evaluate" /\ UNCHANGED <<result, packet>>
                           ELSE Terminate("error")
            ELSE IF r = "EAGAIN" THEN EndIteration ELSE Terminate("error")
    /\ UNCHANGED <<quit, pulled>>
    /\ UNCHANGED <<pacerVars, audioVars, cbVars, audio_decoder, channels, now, device_lock>>

\* variant of ShouldDisplayFrame for the check of C20: the early frame's wait
\* is followed by the bookkeeping (frame_count and next_frame_target move on)
ShouldDisplayFrame_CountsWaits ==
    /\ pc = "evaluate"
    /\ LET pts == UnwrapOr(packet.pts, 0) IN
       IF IsFirstCall(start_time)
       THEN /\ start_time' = Some(now)
            /\ last_frame_time' = Some(now)
            /\ next_frame_target' = Some(FirstTarget(now))
            /\ ret' = Some(TRUE)
            /\ slept' = 0
            /\ pc' = "present"
            /\ UNCHANGED <<frame_count, now, result, packet>>
       ELSE IF VideoTimePanics(pts)
       THEN /\ Terminate("panic")
            /\ UNCHANGED <<start_time, last_frame_time, next_frame_target,
                           frame_count, ret, slept, now>>
       ELSE LET target_time == Unwrap(next_frame_target) IN
            IF now < target_time
            THEN /\ now' = SleepUntil(now, target_time)
                 /\ slept' = target_time - now
                 /\ ret' = Some(FALSE)
                 /\ EndIteration
                 /\ frame_count' = frame_count + 1
                 /\ next_frame_target' = Some(NextTarget(target_time, now))
                 /\ UNCHANGED <<start_time, last_frame_time>>
            ELSE /\ frame_count' = frame_count + 1
                 /\ last_frame_time' = Some(now)
                 /\ next_frame_target' = Some(NextTarget(target_time, now))
                 /\ ret' = Some(TRUE)
                 /\ slept' = 0
                 /\ pc' = "present"
                 /\ UNCHANGED <<start_time, now, result, packet>>
    /\ UNCHANGED <<quit, pulled, dec_ret>>
    /\ UNCHANGED <<audioVars, cbVars, audio_decoder, channels, device_lock>>

\* variant of ShouldDisplayFrame for the check of C17: audio is the master
\* clock, a frame whose video time the audio clock has passed is not held back
ShouldDisplayFrame_AudioMaster ==
    /\ pc = "evaluate"
    /\ LET pts == UnwrapOr(packet.pts, 0) IN
       IF IsFirstCall(start_time)
       THEN /\ start_time' = Some(now)
            /\ last_frame_time' = Some(now)
            /\ next_frame_target' = Some(FirstTarget(now))
            /\ ret' = Some(TRUE)
            /\ slept' = 0
            /\ pc' = "present"
            /\ UNCHANGED <<frame_count, now, result, packet>>
       ELSE IF VideoTimePanics(pts)
       THEN /\ Terminate("panic")
            /\ UNCHANGED <<start_time, last_frame_time, next_frame_target,
                           frame_count, ret, slept, now>>
       ELSE LET target_time == Unwrap(next_frame_target) IN
            IF now < target_time /\ current_time <= pts * Decoder_time_base
            THEN /\ now' = SleepUntil(now, target_time)
                 /\ slept' = target_time - now
                 /\ ret' = Some(FALSE)
                 /\ EndIteration
                 /\ UNCHANGED <<start_time, last_frame_time, next_frame_target,
                                frame_count>>
            ELSE /\ frame_count' = frame_count + 1
                 /\ last_frame_time' = Some(now)
                 /\ next_frame_target' = Some(NextTarget(target_time, now))
                 /\ ret' = Some(TRUE)
                 /\ slept' = 0
                 /\ pc' = "present"
                 /\ UNCHANGED <<start_time, now, result, packet>>
    /\ UNCHANGED <<quit, pulled, dec_ret>>
    /\ UNCHANGED <<audioVars, cbVars, audio_decoder, channels, device_lock>>

\* fn should_display_frame(&mut self, pts: i64) -> bool, called with
\* packet.pts().unwrap_or(0).  A true result takes main to the presentation
\* (pc' = "present"), a false one to the next iteration (pc' = "poll").
ShouldDisplayFrame ==
    /\ pc = "evaluate"
    /\ LET pts == UnwrapOr(packet.pts, 0) IN
       IF IsFirstCall(start_time)
       THEN /\ start_time' = Some(now)
            /\ last_frame_time' = Some(now)
            /\ next_frame_target' = Some(FirstTarget(now))
            /\ ret' = Some(TRUE)
            /\ slept' = 0
            /\ pc' = "present"
            /\ UNCHANGED <<frame_count, now, result, packet>>
       ELSE IF VideoTimePanics(pts)
       THEN /\ Terminate("panic")
            /\ UNCHANGED <<start_time, last_frame_time, next_frame_target,
                           frame_count, ret, slept, now>>
       ELSE LET target_time == Unwrap(next_frame_target) IN
            IF now < target_time
            THEN /\ now' = SleepUntil(now, target_time)
                 /\ slept' = target_time - now
                 /\ ret' = Some(FALSE)
                 /\ EndIteration
                 /\ UNCHANGED <<start_time, last_frame_time, next_frame_target,
                                frame_count>>
            ELSE /\ frame_count' = frame_count + 1
                 /\ last_frame_time' = Some(now)
                 /\ next_frame_target' = Some(NextTarget(target_time, now))
                 /\ ret' = Some(TRUE)
                 /\ slept' = 0
                 /\ pc' = "present"
                 /\ UNCHANGED <<start_time, now, result, packet>>
    /\ UNCHANGED <<quit, pulled, dec_ret>>
    /\ UNCHANGED <<audioVars, cbVars, audio_decoder, channels, device_lock>>

\* texture.update_yuv(...)?; canvas.clear(); canvas.copy(...)?; canvas.present();
Present ==
    /\ pc = "present"
    /\ \E shown \in BOOLEAN : IF shown THEN EndIteration ELSE Terminate("error")
    /\ UNCHANGED <<quit, pulled, dec_ret>>
    /\ UNCHANGED <<pacerVars, audioVars, cbVars, audio_decoder, channels, now, device_lock>>

\* audio_dec.send_packet(&packet)?;
AudioSendPacket ==
    /\ pc = "a_send"
    /\ \E r \in DecoderResults :
         /\ dec_ret' = r
         /\ IF r = "Ok" THEN pc' = "a_recv" /\ UNCHANGED <<result, packet>>
                        ELSE Terminate("error")
    /\ UNCHANGED <<quit, pulled>>
    /\ UNCHANGED <<pacerVars, audioVars, cbVars, audio_decoder, channels, now, device_lock>>

\* while audio_dec.receive_frame(&mut audio_frame).is_ok() { ... }
AudioReceiveFrame ==
    /\ pc = "a_recv"
    /\ \E r \in DecoderResults :
         /\ dec_ret' = r
         /\ IF r = "Ok"
            THEN /\ \E n \in 1..MaxSamples : samples' \in [1..n -> SampleVals]
                 /\ pc' = "a_lock"
                 /\ UNCHANGED <<result, packet>>
            ELSE /\ EndIteration
                 /\ UNCHANGED samples
    /\ UNCHANGED <<quit, pulled>>
    /\ UNCHANGED <<buffer, current_time, samples_to_add, state_lock>>
    /\ UNCHANGED <<pacerVars, cbVars, audio_decoder, channels, now, device_lock>>

\* let mut audio_player = device.lock();
LockDevice ==
    /\ pc = "a_lock"
    /\ device_lock = "free"
    /\ device_lock' = "main"
    /\ pc' = "as_lock"
    /\ UNCHANGED <<result, quit, pulled, packet, dec_ret>>
    /\ UNCHANGED <<pacerVars, audioVars, cbVars, audio_decoder, channels, now>>

\* add_samples: if let Ok(mut state) = self.state.lock() {
\* (the mutex is never poisoned: nothing panics while it is held)
AddSamplesLockState ==
    /\ pc = "as_lock"
    /\ state_lock = "free"
    /\ state_lock' = "main"
    /\ pc' = "as_clock"
    /\ UNCHANGED <<result, quit, pulled, packet, dec_ret>>
    /\ UNCHANGED <<buffer, current_time, samples, samples_to_add>>
    /\ UNCHANGED <<pacerVars, cbVars, audio_decoder, channels, now, device_lock>>

\* add_samples updating the clock only when the buffer has room
AddSamplesClock_SkipWhenFull ==
    /\ pc = "as_clock"
    /\ current_time' = IF BufferSpace(buffer, channels) > 0
                       THEN AudioTime(UnwrapOr(packet.pts, 0))
                       ELSE current_time
    /\ state_lock' = "free"
    /\ pc' = "as_push"
    /\ UNCHANGED <<result, quit, pulled, packet, dec_ret>>
    /\ UNCHANGED <<buffer, samples, samples_to_add>>
    /\ UNCHANGED <<pacerVars, cbVars, audio_decoder, channels, now, device_lock>>

\* variant of AddSamplesClock for the check of C15: the guard of the state
\* mutex is kept past the clock update instead of being dropped
AddSamplesClock_KeepsGuard ==
    /\ pc = "as_clock"
    /\ current_time' = AudioTime(UnwrapOr(packet.pts, 0))
    /\ pc' = "as_push"
    /\ UNCHANGED <<result, quit, pulled, packet, dec_ret>>
    /\ UNCHANGED <<buffer, samples, samples_to_add, state_lock>>
    /\ UNCHANGED <<pacerVars, cbVars, audio_decoder, channels, now, device_lock>>

\* add_samples: state.current_time = current_time; }   (the guard is dropped)
AddSamplesClock ==
    /\ pc = "as_clock"
    /\ current_time' = AudioTime(UnwrapOr(packet.pts, 0))
    /\ state_lock' = "free"
    /\ pc' = "as_push"
    /\ UNCHANGED <<result, quit, pulled, packet, dec_ret>>
    /\ UNCHANGED <<buffer, samples, samples_to_add>>
    /\ UNCHANGED <<pacerVars, cbVars, audio_decoder, channels, now, device_lock>>

\* add_samples: buffer_space, samples_to_add and the push loop
AddSamplesPush ==
    /\ pc = "as_push"
    /\ samples_to_add' = SamplesToAdd(buffer, samples, channels)
    /\ buffer' = AddSamplesBuffer(buffer, samples, channels)
    /\ pc' = "a_unlock"
    /\ UNCHANGED <<result, quit, pulled, packet, dec_ret>>
    /\ UNCHANGED <<current_time, samples, state_lock>>
    /\ UNCHANGED <<pacerVars, cbVars, audio_decoder, channels, now, device_lock>>

\* the device lock guard is dropped at the end of the while body
UnlockDevice ==
    /\ pc = "a_unlock"
    /\ device_lock' = "free"
    /\ samples' = <<>>
    /\ samples_to_add' = 0
    /\ pc' = "a_recv"
    /\ UNCHANGED <<result, quit, pulled, packet, dec_ret>>
    /\ UNCHANGED <<buffer, current_time, state_lock>>
    /\ UNCHANGED <<pacerVars, cbVars, audio_decoder, channels, now>>

\* ------------------------------------------------------ audio device thread
\* the resumed device takes its lock and hands callback a slice of n slots
CallbackEnter ==
    /\ cb_pc = "idle"
    /\ audio_decoder
    /\ pc # "done"
    /\ device_lock = "free"
    /\ device_lock' = "audio"
    /\ \E n \in 1..MaxOut : out' = [i \in 1..n |-> Uninit]
    /\ cb_pc' = "callback"
    /\ UNCHANGED <<loopVars, pacerVars, audioVars, audio_decoder, channels, now>>

\* variant of Callback for the check of C16: the callback moves the clock on
\* by the samples it has played
Callback_AdvancesClock ==
    /\ cb_pc = "callback"
    /\ LET filled == CallbackFill(buffer, out, 1) IN
         /\ buffer' = filled.buffer
         /\ out' = filled.out
         /\ current_time' = current_time + (Len(buffer) - Len(filled.buffer))
    /\ cb_pc' = "played"
    /\ UNCHANGED <<samples, samples_to_add, state_lock>>
    /\ UNCHANGED <<loopVars, pacerVars, audio_decoder, channels, now, device_lock>>

\* fn callback(&mut self, out: &mut [f32])
Callback ==
    /\ cb_pc = "callback"
    /\ LET filled == CallbackFill(buffer, out, 1) IN
         /\ buffer' = filled.buffer
         /\ out' = filled.out
    /\ cb_pc' = "played"
    /\ UNCHANGED <<current_time, samples, samples_to_add, state_lock>>
    /\ UNCHANGED <<loopVars, pacerVars, audio_decoder, channels, now, device_lock>>

\* the device plays the slice and releases its lock
CallbackLeave ==
    /\ cb_pc = "played"
    /\ device_lock' = "free"
    /\ out' = <<>>
    /\ cb_pc' = "idle"
    /\ UNCHANGED <<loopVars, pacerVars, audioVars, audio_decoder, channels, now>>

\* ------------------------------------------------------------------ clock
\* time passes (decoding, presenting, scheduling)
Tick ==
    /\ pc # "done"
    /\ now < MaxTime
    /\ now' = now + 1
    /\ UNCHANGED <<loopVars, pacerVars, audioVars, cbVars, audio_decoder, channels,
                   device_lock>>

\* --------------------------------------------------------- specifications
\* the whole program
Next ==
    \/ Poll
    \/ UserQuit
    \/ NextPacket
    \/ VideoSendPacket
    \/ VideoReceiveFrame
    \/ ShouldDisplayFrame
    \/ Present
    \/ AudioSendPacket
    \/ AudioReceiveFrame
    \/ LockDevice
    \/ AddSamplesLockState
    \/ AddSamplesClock
    \/ AddSamplesPush
    \/ UnlockDevice
    \/ CallbackEnter
    \/ Callback
    \/ CallbackLeave
    \/ Tick

Spec == Init /\ [][Next]_vars

\* the program on a file without a usable audio stream (audio_decoder is
\* None): no audio device is opened, the audio actions are never enabled
InitVideo == Init /\ ~audio_decoder

NextVideo ==
    \/ Poll
    \/ UserQuit
    \/ NextPacket
    \/ VideoSendPacket
    \/ VideoReceiveFrame
    \/ ShouldDisplayFrame
    \/ Present
    \/ Tick

SpecVideo == InitVideo /\ [][NextVideo]_vars

\* the same, with decoding and presenting taking no time: the clock moves
\* only in the pacer's sleeps
NextBackToBack ==
    \/ Poll
    \/ UserQuit
    \/ NextPacket
    \/ VideoSendPacket
    \/ VideoReceiveFrame
    \/ ShouldDisplayFrame
    \/ Present

SpecBackToBack == InitVideo /\ [][NextBackToBack]_vars

\* The steps of the main thread on a file that has no audio stream.  The main
\* thread is never suspended for good: between two steps it only sleeps for a
\* bounded time, so its steps are taken as long as they remain possible.
MainVideo ==
    \/ Poll
    \/ NextPacket
    \/ VideoSendPacket
    \/ VideoReceiveFrame
    \/ ShouldDisplayFrame
    \/ Present

FairSpecVideo == SpecVideo /\ WF_vars(MainVideo)

\* The main thread alone with the clock, on any file (video, audio and other
\* streams), no quit event being posted and the audio device not yet pulling.
NextPlayback ==
    \/ Poll
    \/ NextPacket
    \/ VideoSendPacket
    \/ VideoReceiveFrame
    \/ ShouldDisplayFrame
    \/ Present
    \/ AudioSendPacket
    \/ AudioReceiveFrame
    \/ LockDevice
    \/ AddSamplesLockState
    \/ AddSamplesClock
    \/ AddSamplesPush
    \/ UnlockDevice
    \/ Tick

SpecPlayback == Init /\ [][NextPlayback]_vars

\* the program with an audio device, on the stretch of a file whose packets
\* are not video packets: the pacer is not called and the clock is not read
InitAudio == Init /\ audio_decoder

NextAudio ==
    \/ Poll
    \/ UserQuit
    \/ NextPacketFrom(AudioPackets)
    \/ AudioSendPacket
    \/ AudioReceiveFrame
    \/ LockDevice
    \/ AddSamplesLockState
    \/ AddSamplesClock
    \/ AddSamplesPush
    \/ UnlockDevice
    \/ CallbackEnter
    \/ Callback
    \/ CallbackLeave

SpecAudio == InitAudio /\ [][NextAudio]_vars

\* ------------------------------------------------------------------ claims
\* a step of the playback loop that is the call of should_display_frame
EvaluateStep == pc = "evaluate" /\ pc' # "evaluate"
\* the presentation timestamp handed to should_display_frame / add_samples
PacketPts == UnwrapOr(packet.pts, 0)
\* a step that is the buffer part of add_samples
EnqueueStep == pc = "as_push" /\ pc' = "a_unlock"
\* a step that is the body of callback
PullStep == cb_pc = "callback" /\ cb_pc' = "played"
\* a step that is a call of send_packet or receive_frame
DecoderCallStep == pc \in {"v_send", "v_recv", "a_send", "a_recv"} /\ pc' # pc

\* C1: a call of should_display_frame after the first one that finds
\* now < next_frame_target (stated for a PTS that is not negative) blocks
\* until next_frame_target, then increments frame_count, advances
\* next_frame_target by frame_duration and returns "display now".
C1_EarlyFrameDisplayedAfterSleep ==
    [][(/\ EvaluateStep
        /\ ~IsNone(start_time)
        /\ PacketPts >= 0
        /\ now < Unwrap(next_frame_target))
       => (/\ now' = Unwrap(next_frame_target)
           /\ frame_count' = frame_count + 1
           /\ next_frame_target' = Some(Unwrap(next_frame_target) + frame_duration)
           /\ pc' = "present")]_vars

\* C2: with frames fed back-to-back (decoding and presenting take no time)
\* every frame with a PTS that is not negative is displayed, the first at
\* origin and the k-th after it at origin + k * frame_duration: each call
\* returns "display now" at start_time + frame_count * frame_duration.
C2_OneFramePerPeriod ==
    [][(EvaluateStep /\ PacketPts >= 0)
       => (/\ pc' = "present"
           /\ now' = Unwrap(start_time') + frame_count' * frame_duration)]_vars

\* C3: in every reachable state, whatever the interleaving of add_samples and
\* callback, the ring buffer holds at most AUDIO_BUFFER_SIZE * channels
\* samples, so the free space add_samples computes is never negative.
C3_LengthWithinCapacity ==
    /\ Len(buffer) <= AUDIO_BUFFER_SIZE * channels
    /\ pc = "as_push" => AUDIO_BUFFER_SIZE * channels - Len(buffer) >= 0

\* an enqueue that met a buffer too full for its input and left it full
C3_Witness ==
    /\ pc = "a_unlock"
    /\ samples_to_add < Len(samples)
    /\ Len(buffer) = AUDIO_BUFFER_SIZE * channels
    /\ channels = 2

\* C4: add_samples of m samples into a buffer with free space f appends
\* exactly the first min(f, m) samples of the input, in input order, behind
\* the samples already buffered, which stay as they are.
C4_EnqueueAppendsPrefix ==
    [][EnqueueStep
       => LET f == AUDIO_BUFFER_SIZE * channels - Len(buffer)
              m == Len(samples)
              k == IF f < m THEN f ELSE m
          IN  /\ Len(buffer') = Len(buffer) + k
              /\ \A i \in 1..Len(buffer) : buffer'[i] = buffer[i]
              /\ \A i \in 1..k : buffer'[Len(buffer) + i] = samples[i]]_vars

\* a partial fill: some samples of the input were appended, not all of them,
\* and the first and last sample of the input differ
C4_Witness ==
    /\ pc = "a_unlock"
    /\ 0 < samples_to_add
    /\ samples_to_add < Len(samples)
    /\ samples[1] # samples[Len(samples)]
    /\ buffer[Len(buffer)] = samples[samples_to_add]

\* C5: when add_samples(samples, pts) has returned, the audio clock is
\* pts * time_base, whether all, some or none of the samples were accepted.
C5_ClockFollowsEnqueue ==
    pc = "a_unlock" => current_time = PacketPts * AudioPlayer_time_base

\* an enqueue into a full buffer that accepted nothing and set the clock
C5_Witness ==
    /\ pc = "a_unlock"
    /\ samples_to_add = 0
    /\ Len(buffer) = AUDIO_BUFFER_SIZE * channels
    /\ packet.pts = Some(-1)
    /\ current_time = -1 * AudioPlayer_time_base

\* C6: callback on a slice of n slots and a buffer of L samples writes every
\* slot: the first min(n, L) slots get the oldest samples in FIFO order, the
\* others 0.0, and the buffer keeps the other L - min(n, L) samples in order.
C6_PullFifoThenSilence ==
    [][PullStep
       => LET n == Len(out)
              L == Len(buffer)
              k == IF n < L THEN n ELSE L
          IN  /\ Len(out') = n
              /\ \A i \in 1..n : out'[i] = IF i <= k THEN buffer[i] ELSE 0
              /\ buffer' = SubSeq(buffer, k + 1, L)]_vars

\* a pull that emptied the buffer and padded the slice with silence
C6_Witness ==
    /\ cb_pc = "played"
    /\ buffer = <<>>
    /\ Len(out) = 2
    /\ out[1] # 0
    /\ out[2] = 0

\* C7: the first call of should_display_frame returns "display now" for
\* every PTS, without blocking, and sets start_time = now,
\* last_frame_time = now and next_frame_target = now + frame_duration.
C7_FirstFrameAnchors ==
    [][(EvaluateStep /\ IsNone(start_time))
       => (/\ pc' = "present"
           /\ result' = "running"
           /\ now' = now
           /\ start_time' = Some(now)
           /\ last_frame_time' = Some(now)
           /\ next_frame_target' = Some(now + frame_duration)
           /\ frame_count' = 0)]_vars

\* the first call has returned "display now" for a negative PTS, at a clock
\* reading that is not the initial one
C7_Witness ==
    /\ pc = "present"
    /\ frame_count = 0
    /\ packet.pts = Some(-1)
    /\ start_time = Some(now)
    /\ now > 0

\* C8: once the first call is made, next_frame_target is
\* start_time + k * frame_duration for an integer k >= 1.
C8_TargetOnGrid ==
    /\ IsNone(start_time) <=> IsNone(next_frame_target)
    /\ ~IsNone(start_time)
         => \E k \in 1..(MaxPackets + 1) :
              Unwrap(next_frame_target) = Unwrap(start_time) + k * frame_duration

\* two frames displayed after the first, the last one late
C8_Witness ==
    /\ frame_count >= 2
    /\ Unwrap(last_frame_time) > Unwrap(start_time) + frame_count * frame_duration

\* C9: a call of should_display_frame after the first one that finds
\* now >= next_frame_target returns "display now" without sleeping and
\* advances next_frame_target by exactly one frame_duration.
C9_DueFrameDisplayed ==
    [][(/\ EvaluateStep
        /\ ~IsNone(start_time)
        /\ now >= Unwrap(next_frame_target))
       => (/\ pc' = "present"
           /\ now' = now
           /\ next_frame_target' = Some(Unwrap(next_frame_target) + frame_duration))]_vars

\* C9 for a PTS that is not negative: the due or late frame is displayed at
\* once and the target advances by one frame_duration, however late it is
C9_DueFrameDisplayed_NonNegativePts ==
    [][(/\ EvaluateStep
        /\ ~IsNone(start_time)
        /\ PacketPts >= 0
        /\ now >= Unwrap(next_frame_target))
       => (/\ pc' = "present"
           /\ now' = now
           /\ frame_count' = frame_count + 1
           /\ next_frame_target' = Some(Unwrap(next_frame_target) + frame_duration))]_vars

\* C10: every failure of send_packet or receive_frame other than "no output
\* available yet" terminates the playback loop with an error.
C10_DecoderFailureIsFatal ==
    [][(DecoderCallStep /\ dec_ret' = "Err")
       => (pc' = "done" /\ result' = "error")]_vars

\* the step main takes out of the event poll at the head of an iteration
PollStep == pc = "poll" /\ pc' # "poll"

\* C11: a quit event pending when the loop polls ends the loop in that very
\* iteration with the success result, and nothing more is pulled from the
\* demultiplexer, sent to a decoder, enqueued or presented from then on.
C11_QuitStopsAtPoll ==
    [][/\ (PollStep /\ quit)
            => /\ pc' = "done"
               /\ result' = "ok"
               /\ pulled' = pulled
               /\ buffer' = buffer
               /\ current_time' = current_time
               /\ frame_count' = frame_count
       /\ pc = "done"
            => /\ pc' = "done"
               /\ result' = result
               /\ pulled' = pulled
               /\ dec_ret' = dec_ret
               /\ Len(buffer') <= Len(buffer)
               /\ current_time' = current_time
               /\ frame_count' = frame_count]_vars

\* the loop has stopped with the success result while a quit event was posted,
\* after it had enqueued samples and before the demultiplexer's bound
C11_Witness ==
    /\ pc = "done"
    /\ result = "ok"
    /\ quit
    /\ pulled > 0
    /\ pulled < MaxPackets
    /\ Len(buffer) > 0

\* C12: the clock being monotonic, the pacer's target is never more than one
\* frame_duration ahead of the clock, so no sleep of should_display_frame
\* lasts longer than one frame_duration (which bounds the delay of a quit).
C12_SleepAtMostOnePeriod ==
    /\ slept <= frame_duration
    /\ ~IsNone(next_frame_target)
         => Unwrap(next_frame_target) - now <= frame_duration

\* a call has just slept for a whole frame period
C12_Witness ==
    /\ pc = "poll"
    /\ ret = Some(FALSE)
    /\ slept = frame_duration
    /\ now = Unwrap(next_frame_target)

\* C13: the demultiplexer delivering finitely many packets, a loop that is not
\* stopped by a fatal decode or presentation error ends with the success
\* result.
C13_EndsNormally == pc = "done" => result \in {"ok", "error"}

\* the loop does come to an end on every finite stream (FairSpecVideo), each
\* packet being pulled once: the count of pulls goes up by one per packet
C13_LoopEnds == <>(pc = "done")

C13_PulledOnce ==
    [][pulled' # pulled
         => (pc = "next" /\ pulled' = pulled + 1 /\ pulled' <= MaxPackets)]_vars

\* C14: the frames decoded from a video packet are all drained before the next
\* packet is pulled: the video branch of an iteration hands over to the next
\* iteration only once receive_frame has answered that no frame is left.
C14_VideoFramesDrained ==
    [][(pc \in {"v_recv", "evaluate", "present"} /\ pc' = "poll")
         => dec_ret' = "EAGAIN"]_vars

\* C15: no execution context (main thread, audio device thread) ever holds
\* more than one lock at a time.
C15_AtMostOneLockHeld ==
    \A ctx \in {"main", "audio"} : ~(device_lock = ctx /\ state_lock = ctx)

\* C15 as amended: the AudioState mutex is held only by the main thread, only
\* for the clock update of add_samples, and only inside the device lock it took
\* before; the audio device thread holds the device lock alone.  The two locks
\* are thus always taken in the order device lock, state mutex.
C15_StateLockNestedInDeviceLock ==
    /\ state_lock \in {"free", "main"}
    /\ state_lock = "main" => (device_lock = "main" /\ pc = "as_clock")
    /\ cb_pc # "idle" => (device_lock = "audio" /\ state_lock = "free")

\* main holds the device lock and the state mutex together while the callback
\* has run before
C15_Witness ==
    /\ pc = "as_clock"
    /\ device_lock = "main"
    /\ state_lock = "main"
    /\ Len(buffer) > 0

\* a step of the audio device thread
DeviceStep == cb_pc' # cb_pc

\* C16: callback only takes samples off the head of the buffer: what it leaves
\* is a suffix of what it found, never longer, and current_time is as before.
\* Samples are appended and current_time is written by add_samples on the main
\* thread only, never by a step of the audio device thread.
C16_PullOnlyRemovesHead ==
    [][/\ PullStep
            => /\ \E k \in 0..Len(buffer) :
                     buffer' = SubSeq(buffer, k + 1, Len(buffer))
               /\ current_time' = current_time
       /\ DeviceStep
            => /\ Len(buffer') <= Len(buffer)
               /\ current_time' = current_time
       /\ Len(buffer') > Len(buffer) => EnqueueStep
       /\ current_time' # current_time
            => (pc = "as_clock" /\ pc' = "as_push")]_vars

\* a pull has taken a sample off the head of a buffer that still holds others,
\* the clock having been written by an earlier enqueue
C16_Witness ==
    /\ cb_pc = "played"
    /\ Len(out) >= 1
    /\ out[1] # 0
    /\ Len(buffer) > 0
    /\ current_time # 0

\* what a should_display_frame call made at clock t with the given PTS makes
\* of the pacer's fields, its result, its sleep and the clock, written as a
\* function of the pacer's own fields, the clock and the PTS
PacerOutcome(st, lft, tgt, cnt, r, s, t, pts) ==
    IF IsNone(st)
    THEN <<Some(t), Some(t), Some(t + frame_duration), cnt, Some(TRUE), 0, t>>
    ELSE IF pts * Decoder_time_base < 0
    THEN <<st, lft, tgt, cnt, r, s, t>>
    ELSE IF t < Unwrap(tgt)
    THEN <<st, lft, tgt, cnt, Some(FALSE), Unwrap(tgt) - t, Unwrap(tgt)>>
    ELSE <<st, Some(t), Some(Unwrap(tgt) + frame_duration), cnt + 1,
           Some(TRUE), 0, t>>

\* C17: the pacer does not depend on the audio path.  The result, the sleep
\* and the new pacer state of every should_display_frame call are a function
\* of the pacer state, the clock and the PTS of the call alone, whatever
\* add_samples has put in the buffer and the audio clock; and no other step,
\* the audio path's included, changes the pacer state.  Two runs with the same
\* calls at the same clock readings therefore agree on all of them.
C17_PacerIgnoresAudio ==
    [][/\ EvaluateStep
            => <<start_time', last_frame_time', next_frame_target',
                 frame_count', ret', slept', now'>>
               = PacerOutcome(start_time, last_frame_time, next_frame_target,
                              frame_count, ret, slept, now, PacketPts)
       /\ ~EvaluateStep
            => UNCHANGED <<start_time, last_frame_time, next_frame_target,
                           frame_count, ret, slept>>]_vars

\* a frame has been held back although the audio clock, written by an enqueue
\* that filled the buffer, is past the frame's video time
C17_Witness ==
    /\ pc = "poll"
    /\ ret = Some(FALSE)
    /\ frame_count >= 1
    /\ Len(buffer) > 0
    /\ current_time > 1 * Decoder_time_base

\* the buffered samples a pull has delivered: the slots of the slice that are
\* not silence (a decoded sample of SampleVals is never 0)
Delivered(o) == SelectSeq(o, LAMBDA x : x # 0)

\* C18: under every interleaving of the two threads the buffer is a FIFO
\* between them.  With A the samples accepted by the enqueues so far, D the
\* samples delivered by the pulls so far and B the buffer, A = D \o B holds at
\* the start, and every step keeps it: an enqueue (holding the device lock)
\* adds the samples it accepts, a prefix of its input, to the tail of A and B;
\* a pull (holding the device lock) moves the samples it delivers from the
\* head of B to the tail of D; no other step touches B.  So D is always a
\* prefix of A, nothing is lost, duplicated or reordered, and
\* Len(A) = Len(D) + Len(B).
C18_FifoAcrossThreads ==
    [][/\ EnqueueStep
            => /\ device_lock = "main"
               /\ cb_pc = "idle"
               /\ \E n \in 0..Len(samples) :
                     buffer' = buffer \o SubSeq(samples, 1, n)
       /\ PullStep
            => /\ device_lock = "audio"
               /\ pc \notin {"as_lock", "as_clock", "as_push", "a_unlock"}
               /\ buffer = Delivered(out') \o buffer'
       /\ (~EnqueueStep /\ ~PullStep) => buffer' = buffer]_vars

\* a pull has delivered two different samples and left others in the buffer
\* while main, a decoded frame in hand, waits for the device lock
C18_Witness ==
    /\ cb_pc = "played"
    /\ pc = "a_lock"
    /\ Len(out) = 2
    /\ Delivered(out) = out
    /\ out[1] # out[2]
    /\ Len(buffer) > 0

\* C19: the clock being monotonic, a should_display_frame call that has slept
\* and returned false is followed by a call that finds now >= next_frame_target
\* and returns true: false is never returned by two calls in a row.
C19_WaitThenDisplay ==
    [][(EvaluateStep /\ ret = Some(FALSE))
         => /\ now >= Unwrap(next_frame_target)
            /\ ret' = Some(TRUE)
            /\ pc' = "present"]_vars

\* what holds of the call that follows a wait, whatever its PTS: the target
\* has been reached, and the call does not return false a second time
C19_NoSecondWait ==
    [][(EvaluateStep /\ ret = Some(FALSE))
         => /\ now >= Unwrap(next_frame_target)
            /\ now' = now
            /\ pc' # "poll"]_vars

\* a should_display_frame call that returns false / a call other than the
\* first that returns true
ReturnsFalse == EvaluateStep /\ ret' = Some(FALSE) /\ pc' = "poll"

LaterCallReturnsTrue ==
    EvaluateStep /\ ~IsNone(start_time) /\ ret' = Some(TRUE) /\ pc' = "present"

\* C20: a call that returns false leaves start_time, last_frame_time,
\* next_frame_target and frame_count as they were.  frame_count goes up, by
\* one, and a next_frame_target already set moves, by one frame_duration, in
\* exactly the calls other than the first that return true.
C20_WaitChangesNoPacerState ==
    [][/\ ReturnsFalse
            => UNCHANGED <<start_time, last_frame_time, next_frame_target,
                           frame_count>>
       /\ LaterCallReturnsTrue
            => /\ frame_count' = frame_count + 1
               /\ Unwrap(next_frame_target')
                    = Unwrap(next_frame_target) + frame_duration
       /\ frame_count' # frame_count => LaterCallReturnsTrue
       /\ (~IsNone(next_frame_target)
             /\ next_frame_target' # next_frame_target)
            => LaterCallReturnsTrue]_vars

\* a call has returned false after frames were counted, and the pacer is as
\* the last displayed frame left it
C20_Witness ==
    /\ pc = "poll"
    /\ ret = Some(FALSE)
    /\ slept > 0
    /\ frame_count >= 1
    /\ Unwrap(next_frame_target)
         = Unwrap(start_time) + (frame_count + 1) * frame_duration

====
